---- MODULE Spec2Model ----
(***************************************************************************)
(* Zamex Telematics - Teltonika TCP listener.                              *)
(*                                                                         *)
(* A model of src/listener: the Codec 8 / 8 Extended parser (parser.js),   *)
(* the per-connection 'data' handler (index.js) and the device router with *)
(* its credential cache (router.js).                                       *)
(*                                                                         *)
(* Buffers are sequences of bytes (0..255).  Offsets are 0-based as in the *)
(* source; byte o of buffer b is b[o + 1].                                 *)
(***************************************************************************)
EXTENDS Integers, Sequences, FiniteSets, TLC

(***************************************************************************)
(* Buffer reads.  A read past the end of a Buffer throws a RangeError in   *)
(* Node; every reader below is paired with the test CanRead.               *)
(***************************************************************************)
CanRead(b, off, n) == off + n <= Len(b)

readUInt8(b, off) == b[off + 1]

readUInt16BE(b, off) == b[off + 1] * 256 + b[off + 2]

\* two's complement, 16 bits
readInt16BE(b, off) ==
    IF b[off + 1] >= 128 THEN readUInt16BE(b, off) - 65536 ELSE readUInt16BE(b, off)

\* two's complement, 32 bits (the result fits a signed 32-bit integer)
readInt32BE(b, off) ==
    LET hi == IF b[off + 1] >= 128 THEN b[off + 1] - 256 ELSE b[off + 1]
    IN  ((hi * 256 + b[off + 2]) * 256 + b[off + 3]) * 256 + b[off + 4]

(***************************************************************************)
(* Unsigned values of 4 and 8 bytes exceed the checker's integers: they    *)
(* are kept as base-256 numerals, most significant digit first, without    *)
(* leading zeros (<<>> is 0).  Two numerals are equal iff the numbers are. *)
(***************************************************************************)
RECURSIVE StripZeros(_)
StripZeros(d) ==
    IF d = <<>> THEN <<>>
    ELSE IF Head(d) = 0 THEN StripZeros(Tail(d)) ELSE d

readNumeralBE(b, off, n) == StripZeros(SubSeq(b, off + 1, off + n))

\* a <= c for numerals
RECURSIVE LexLeq(_, _)
LexLeq(a, c) ==
    IF a = <<>> THEN TRUE
    ELSE IF Head(a) # Head(c) THEN Head(a) < Head(c)
    ELSE LexLeq(Tail(a), Tail(c))

NumeralLeq(a, c) ==
    IF Len(a) # Len(c) THEN Len(a) < Len(c) ELSE LexLeq(a, c)

\* 8.64e15 ms = 0x1EB208C2DC0000, the largest time value a Date holds;
\* new Date(n).toISOString() throws a RangeError beyond it.
MaxDateMs == <<30, 178, 8, 194, 220, 0, 0>>

Null == [null |-> TRUE]

\* JS null for object-valued results; a thrown exception inside the parser
Throw == [throw |-> TRUE]

\* JS null for string-valued results: like null, the empty string is falsy,
\* and the source only ever tests the IMEI for truthiness.
NoIMEI == <<>>

(***************************************************************************)
(* TeltonikaParser.parseIMEI                                               *)
(***************************************************************************)
\* Buffer.toString('ascii') clears the high bit of every byte
toAscii(bytes) == [i \in 1..Len(bytes) |-> bytes[i] % 128]

\* Buffer.slice clamps its bounds to the buffer
slice(b, from, to) ==
    SubSeq(b, from + 1, IF to <= Len(b) THEN to ELSE Len(b))

IsDigit(ch) == ch >= 48 /\ ch <= 57

\* /^\d{15}$/
AllDigits15(str) == Len(str) = 15 /\ \A i \in 1..15 : IsDigit(str[i])

parseIMEI(buffer) ==
    IF ~CanRead(buffer, 0, 2) THEN NoIMEI
    ELSE LET imeiLength == readUInt16BE(buffer, 0)
         IN  IF imeiLength # 15 THEN NoIMEI
             ELSE LET imei == toAscii(slice(buffer, 2, 2 + imeiLength))
                  IN  IF ~AllDigits15(imei) THEN NoIMEI ELSE imei

(***************************************************************************)
(* TeltonikaParser.parseIOElements / parseIOElement / parseGPSElement      *)
(***************************************************************************)
Codec8 == 8

Codec8Ext == 142

\* variant: one byte for every codec
HeaderWidthNarrow(codecID) == 1

\* width of the ids and counts of the IO section
HeaderWidth(codecID) == IF codecID = Codec8Ext THEN 2 ELSE 1

readHeader(b, off, codecID) ==
    IF codecID = Codec8Ext THEN readUInt16BE(b, off) ELSE readUInt8(b, off)

\* Object.assign(io, more)
Assign(io, more) ==
    [k \in DOMAIN io \cup DOMAIN more |-> IF k \in DOMAIN more THEN more[k] ELSE io[k]]

\* 2^53, up to which Number(bigint) is exact
MaxSafe == <<32, 0, 0, 0, 0, 0, 0>>

RECURSIVE BitLen(_)
BitLen(x) == IF x = 0 THEN 0 ELSE 1 + BitLen(x \div 2)

RECURSIVE Pow2(_)
Pow2(d) == IF d = 0 THEN 1 ELSE 2 * Pow2(d - 1)

\* numeral + 1
RECURSIVE AddOne(_)
AddOne(n) ==
    IF n = <<>> THEN <<1>>
    ELSE IF n[Len(n)] < 255 THEN [n EXCEPT ![Len(n)] = @ + 1]
    ELSE Append(AddOne(SubSeq(n, 1, Len(n) - 1)), 0)

\* A numeral above 2^53 is rounded to the nearest double (53 significant
\* bits, ties to even): at most 11 low bits are dropped, all of them within
\* the last 2 bytes.  DropBits is their number, low16 the last 2 bytes, q = 2^DropBits.
DropBits(n) == 8 * (Len(n) - 1) + BitLen(n[1]) - 53

RoundsUp(low16, q) ==
    \/ (low16 % q) * 2 > q
    \/ (low16 % q) * 2 = q /\ (low16 \div q) % 2 = 1

Rounded16(low16, q) ==
    IF RoundsUp(low16, q) THEN ((low16 \div q) + 1) * q ELSE (low16 \div q) * q

WithLow16(prefix, v) ==
    IF v = 65536 THEN AddOne(prefix) \o <<0, 0>>
    ELSE prefix \o <<v \div 256, v % 256>>

RoundToDouble(n) ==
    WithLow16(SubSeq(n, 1, Len(n) - 2),
              Rounded16(n[Len(n) - 1] * 256 + n[Len(n)], Pow2(DropBits(n))))

\* Number(buffer.readBigUInt64BE(offset)): exact up to 2^53, else rounded
NumberOfBigInt(n) == IF NumeralLeq(n, MaxSafe) THEN n ELSE RoundToDouble(n)

readIOValue(b, off, byteLength) ==
    IF byteLength = 8 THEN NumberOfBigInt(readNumeralBE(b, off, 8))
    ELSE readNumeralBE(b, off, byteLength)

\* the id of entry j of the count entries that start at first, each an id and
\* a value of byteLength bytes
ioID(b, first, byteLength, codecID, j) ==
    readHeader(b, first + j * (HeaderWidth(codecID) + byteLength), codecID)

\* the last entry that carries the id k
LastEntry(b, first, byteLength, codecID, count, k) ==
    CHOOSE j \in 0..(count - 1) :
        /\ ioID(b, first, byteLength, codecID, j) = k
        /\ \A i \in (j + 1)..(count - 1) : ioID(b, first, byteLength, codecID, i) # k

\* the value of entry j
ioValue(b, first, byteLength, codecID, j) ==
    readIOValue(b, first + j * (HeaderWidth(codecID) + byteLength)
                       + HeaderWidth(codecID), byteLength)

\* the for loop of parseIOElements: the entry of an id is the last one that
\* carries it (io[`io_${ioID}`] = value replaces an earlier value)
IOEntries(b, first, byteLength, codecID, count) ==
    [k \in {ioID(b, first, byteLength, codecID, j) : j \in 0..(count - 1)} |->
        ioValue(b, first, byteLength, codecID,
                LastEntry(b, first, byteLength, codecID, count, k))]

\* a read past the end of the buffer throws, whichever entry it is in
parseIOElements(b, off, byteLength, codecID) ==
    LET w == HeaderWidth(codecID)
    IN  IF ~CanRead(b, off, w) THEN Throw
        ELSE LET count == readHeader(b, off, codecID)
             IN  IF count > 0 /\ ~CanRead(b, off + w, count * (w + byteLength))
                 THEN Throw
                 ELSE [data |-> IOEntries(b, off + w, byteLength, codecID, count),
                       newOffset |-> off + w + count * (w + byteLength)]

parseIOElement(b, off, codecID) ==
    LET w == HeaderWidth(codecID)
    IN  IF ~CanRead(b, off, w) \/ ~CanRead(b, off + w, w) THEN Throw
        ELSE
        LET eventID == readHeader(b, off, codecID)
            r1 == parseIOElements(b, off + w + w, 1, codecID)
        IN  IF r1 = Throw THEN Throw ELSE
        LET r2 == parseIOElements(b, r1.newOffset, 2, codecID)
        IN  IF r2 = Throw THEN Throw ELSE
        LET r4 == parseIOElements(b, r2.newOffset, 4, codecID)
        IN  IF r4 = Throw THEN Throw ELSE
        LET r8 == parseIOElements(b, r4.newOffset, 8, codecID)
        IN  IF r8 = Throw THEN Throw ELSE
            [data |-> Assign(Assign(Assign(r1.data, r2.data), r4.data), r8.data),
             eventID |-> eventID,
             newOffset |-> r8.newOffset]

\* longitude and latitude are kept in units of 1e-7 degree (the raw value the
\* source divides by 10000000)
parseGPSElement(b, off) ==
    IF ~CanRead(b, off, 15) THEN Throw
    ELSE [data |-> [longitude |-> readInt32BE(b, off),
                    latitude |-> readInt32BE(b, off + 4),
                    altitude |-> readInt16BE(b, off + 8),
                    angle |-> readUInt16BE(b, off + 10),
                    satellites |-> readUInt8(b, off + 12),
                    speed |-> readUInt16BE(b, off + 13)],
          newOffset |-> off + 15]

(***************************************************************************)
(* TeltonikaParser.parseAVLRecord: a record and the new offset, or null    *)
(* when anything inside throws.  recorded_at is the instant in ms; the     *)
(* ISO-8601 text exists exactly for instants up to MaxDateMs.              *)
(***************************************************************************)
parseAVLRecord(b, off, codecID) ==
    IF ~CanRead(b, off, 8) THEN Null
    ELSE LET timestamp == readNumeralBE(b, off, 8)
         IN  IF ~NumeralLeq(timestamp, MaxDateMs) THEN Null
             ELSE IF ~CanRead(b, off + 8, 1) THEN Null
             ELSE LET gps == parseGPSElement(b, off + 9)
                  IN  IF gps = Throw THEN Null
                      ELSE LET io == parseIOElement(b, gps.newOffset, codecID)
                           IN  IF io = Throw THEN Null
                               ELSE [data |-> [recorded_at |-> timestamp,
                                               priority |-> readUInt8(b, off + 8),
                                               longitude |-> gps.data.longitude,
                                               latitude |-> gps.data.latitude,
                                               altitude |-> gps.data.altitude,
                                               angle |-> gps.data.angle,
                                               satellites |-> gps.data.satellites,
                                               speed |-> gps.data.speed,
                                               io_elements |-> io.data,
                                               event_id |-> io.eventID],
                                     newOffset |-> io.newOffset]

(***************************************************************************)
(* TeltonikaParser.parseAVLData                                            *)
(***************************************************************************)
\* the for loop: a record that fails to parse is skipped, the cursor stays
RECURSIVE RecordLoop(_, _, _, _, _)
RecordLoop(b, off, codecID, left, records) ==
    IF left = 0 THEN records
    ELSE LET record == parseAVLRecord(b, off, codecID)
         IN  IF record # Null
             THEN RecordLoop(b, record.newOffset, codecID, left - 1,
                             Append(records, record.data))
             ELSE RecordLoop(b, off, codecID, left - 1, records)

\* variant: no codec id is refused
SupportedCodecAny(codecID) == TRUE

\* codecID !== 0x08 && codecID !== 0x8E, negated
SupportedCodec(codecID) == codecID = Codec8 \/ codecID = Codec8Ext

parseAVLData(buffer) ==
    IF ~CanRead(buffer, 4, 4) \/ ~CanRead(buffer, 8, 1) THEN Null
    ELSE LET codecID == readUInt8(buffer, 8)
         IN  IF ~SupportedCodec(codecID) THEN Null
             ELSE IF ~CanRead(buffer, 9, 1) THEN Null
             ELSE [codecID |-> codecID,
                   numberOfRecords |-> readUInt8(buffer, 9),
                   records |-> RecordLoop(buffer, 10, codecID,
                                          readUInt8(buffer, 9), <<>>)]

(***************************************************************************)
(* TeltonikaParser.createACK: 4 bytes, big-endian                          *)
(***************************************************************************)
createACK(numberOfRecords) ==
    << (numberOfRecords \div 16777216) % 256, (numberOfRecords \div 65536) % 256,
       (numberOfRecords \div 256) % 256, numberOfRecords % 256 >>


(***************************************************************************)
(* Messages a device can send (inputs of the model).                       *)
(***************************************************************************)
\* "123456789012345" and "356307042441013"
IMEI1 == <<49, 50, 51, 52, 53, 54, 55, 56, 57, 48, 49, 50, 51, 52, 53>>

IMEI2 == <<51, 53, 54, 51, 48, 55, 48, 52, 50, 52, 52, 49, 48, 49, 51>>

Imeis == {IMEI1, IMEI2}

\* [2B length = 15][15B ASCII digits]
IdentityMsg(imei) == <<0, 15>> \o imei

\* length prefix 16 instead of 15
BadLengthMsg == <<0, 16>> \o IMEI1

\* an 'A' among the 15 characters
NonDigitMsg == <<0, 15>> \o [IMEI1 EXCEPT ![15] = 65]

\* one Codec 8 record: 2024-02-11T22:00:00Z, priority 0, lon -99.133209,
\* lat 19.432608, alt 2240, angle 180, 12 satellites, speed 60, event 0, io_1 = 1
RecordA ==
    <<0, 0, 1, 141, 154, 47, 47, 0, 0, 196, 233, 121, 6, 11, 149, 46, 64,
      8, 192, 0, 180, 12, 0, 60, 0, 1, 1, 1, 1, 0, 0, 0>>

\* a second Codec 8 record, 30 s later: priority 1, event 9, io_9 = 0, io_66 = 13800
RecordB ==
    <<0, 0, 1, 141, 154, 47, 164, 48, 1, 196, 233, 121, 96, 11, 149, 45, 240,
      8, 193, 0, 181, 11, 0, 61, 9, 2, 1, 9, 0, 1, 66, 53, 232, 0, 0>>

\* RecordA in Codec 8 Extended (2-byte event id, counts and io ids)
RecordAExt ==
    <<0, 0, 1, 141, 154, 47, 47, 0, 0, 196, 233, 121, 6, 11, 149, 46, 64,
      8, 192, 0, 180, 12, 0, 60, 0, 0, 0, 1, 0, 1, 0, 1, 1, 0, 0, 0, 0, 0, 0>>

\* [4B preamble][4B data length][codec][count] records [count][4B CRC]
PacketBytes(codecID, count, recordBytes) ==
    <<0, 0, 0, 0>> \o createACK(Len(recordBytes) + 3) \o <<codecID, count>>
        \o recordBytes \o <<count>> \o <<0, 0, 0, 0>>

PacketOne == PacketBytes(Codec8, 1, RecordA)

PacketTwo == PacketBytes(Codec8, 2, RecordA \o RecordB)

PacketExt == PacketBytes(Codec8Ext, 1, RecordAExt)

\* declares 2 records, the buffer ends inside the second
PacketCut == SubSeq(PacketTwo, 1, 10 + Len(RecordA) + 20)

\* declares 1 record, the buffer ends inside it (12 bytes)
PacketStub == SubSeq(PacketOne, 1, 12)

\* codec id 7
PacketBadCodec == PacketBytes(7, 1, RecordA)

\* what the devices of the session model send
Chunks ==
    {IdentityMsg(IMEI1), BadLengthMsg, NonDigitMsg,
     PacketOne, PacketTwo, PacketCut, PacketStub, PacketBadCodec, PacketExt}

\* what the devices of the resolver model send
IdentityChunks == {IdentityMsg(IMEI1), IdentityMsg(IMEI2)}

\* identities that differ from a valid one in one place: the first character
\* with its high bit set (0xB1 for '1'), a length prefix of 14, a length
\* prefix of 0x010F, a '/' (0x2F) and a ':' (0x3A) among the characters
HighBitMsg == <<0, 15>> \o [IMEI1 EXCEPT ![1] = 177]

ShortLengthMsg == <<0, 14>> \o IMEI1

WideLengthMsg == <<1, 15>> \o IMEI1

BelowDigitMsg == <<0, 15>> \o [IMEI1 EXCEPT ![8] = 47]

AboveDigitMsg == <<0, 15>> \o [IMEI1 EXCEPT ![8] = 58]

\* a valid identity in two chunks of 5 and 12 bytes
IdentityHead == SubSeq(IdentityMsg(IMEI1), 1, 5)

IdentityTail == SubSeq(IdentityMsg(IMEI1), 6, 17)

\* RecordB in Codec 8 Extended
RecordBExt ==
    <<0, 0, 1, 141, 154, 47, 164, 48, 1, 196, 233, 121, 96, 11, 149, 45, 240,
      8, 193, 0, 181, 11, 0, 61, 0, 9, 0, 2, 0, 1, 0, 9, 0, 0, 1, 0, 66, 53, 232,
      0, 0, 0, 0>>

PacketTwoExt == PacketBytes(Codec8Ext, 2, RecordAExt \o RecordBExt)

\* a record with a 4-byte and an 8-byte IO element: event 16, io_16 = 123456,
\* io_78 = 0x12345678; in Codec 8 and in Codec 8 Extended
RecordC ==
    <<0, 0, 1, 141, 154, 47, 47, 0, 0, 196, 233, 121, 6, 11, 149, 46, 64,
      8, 192, 0, 180, 12, 0, 60, 16, 2, 0, 0, 1, 16, 0, 1, 226, 64,
      1, 78, 0, 0, 0, 0, 18, 52, 86, 120>>

RecordCExt ==
    <<0, 0, 1, 141, 154, 47, 47, 0, 0, 196, 233, 121, 6, 11, 149, 46, 64,
      8, 192, 0, 180, 12, 0, 60, 0, 16, 0, 2, 0, 0, 0, 0, 0, 1, 0, 16, 0, 1, 226, 64,
      0, 1, 0, 78, 0, 0, 0, 0, 18, 52, 86, 120>>

PacketWide == PacketBytes(Codec8, 1, RecordC)

PacketWideExt == PacketBytes(Codec8Ext, 1, RecordCExt)

\* PacketOne in two chunks, cut after 12 bytes and cut after 8 bytes
PacketOneRest == SubSeq(PacketOne, 13, Len(PacketOne))

PacketHead == SubSeq(PacketOne, 1, 8)

PacketOneTail == SubSeq(PacketOne, 9, Len(PacketOne))

\* PacketTwo in two chunks, cut inside its second record
PacketTwoRest == SubSeq(PacketTwo, Len(PacketCut) + 1, Len(PacketTwo))

\* codec ids next to the supported ones and at the ends of the byte range
BadCodecs == {0, 7, 9, 141, 143, 255}

\* a packet of one record for each of them
BadCodecPackets == {PacketBytes(codecID, 1, RecordA) : codecID \in BadCodecs}

\* what the devices of the codec model send
CodecChunks == {IdentityMsg(IMEI1)} \cup BadCodecPackets

\* what the devices of the sessions model send
SessionChunks == {IdentityMsg(IMEI1), PacketOne}

\* what the devices of the decoder model send
DecoderChunks ==
    {IdentityMsg(IMEI1), HighBitMsg, ShortLengthMsg, WideLengthMsg,
     BelowDigitMsg, AboveDigitMsg, IdentityHead, IdentityTail,
     PacketOne, PacketExt, PacketTwo, PacketTwoExt, PacketWide, PacketWideExt,
     PacketStub, PacketOneRest, PacketHead, PacketOneTail,
     PacketCut, PacketTwoRest}
        \cup BadCodecPackets

(***************************************************************************)
(* Bounds of the model.                                                    *)
(***************************************************************************)
\* connection slots (sockets open at the same time)
MaxConns == 2

\* 'data' events per connection in the session model
MaxChunks == 3

\* 'data' events per connection in the resolver model
MaxLookupChunks == 1

\* 'data' events per connection in the decoder model
MaxDecoderChunks == 3

\* 'data' events per connection in the sessions model
MaxSessionChunks == 2

\* the clock stops here
MaxTime == 3

\* 5 * 60 * 1000 ms, in ticks of 2.5 minutes
CacheTicks == 2

Conns == 1..MaxConns

(***************************************************************************)
(* State.                                                                  *)
(*   socket[s]       "none" (no connection), "open", "ended" (end() was    *)
(*                   called: FIN sent, still readable) or "destroyed"      *)
(*   deviceIMEI[s], clientConfig[s], dataBuffer[s]                         *)
(*                   the variables of the connection callback              *)
(*   pending[s]      the invocations of the async 'data' handler that are  *)
(*                   suspended at an await, oldest first                   *)
(*   written[s]      the buffers written to the socket, in order           *)
(*   routeCalls[s]   the calls of router.routeData, in order, each with    *)
(*                   what its insert did: "pending", "ok", "error",        *)
(*                   "throw", or "none" (the insert was not reached)       *)
(*   lookupKind[s]   history: how validateDevice took the lookup of s:     *)
(*                   "none" (no lookup yet), "hit" (from the cache),       *)
(*                   "miss" (query), or "remiss" (query, the last entry   *)
(*                   of the IMEI having been set CacheTicks or more ago)   *)
(*   received[s]     number of 'data' events so far                        *)
(*   clientCache     DataRouter.clientCache (Null: no entry)               *)
(*   timers          the pending setTimeout callbacks, soonest first       *)
(*   now             the clock, in ticks                                   *)
(*   insertedAt      history: when the entry of an IMEI was set            *)
(*   firstAt         history: when an IMEI was first resolved (-1: never)  *)
(***************************************************************************)
VARIABLES socket, deviceIMEI, clientConfig, dataBuffer, pending, written,
          routeCalls, received, lookupKind, clientCache, timers, now, insertedAt,
          firstAt

vars == <<socket, deviceIMEI, clientConfig, dataBuffer, pending, written,
          routeCalls, received, lookupKind, clientCache, timers, now, insertedAt,
          firstAt>>

connVars == <<socket, deviceIMEI, clientConfig, dataBuffer, pending, written,
              routeCalls, received, lookupKind>>

routerVars == <<clientCache, timers, insertedAt, firstAt>>

Init ==
    /\ socket = [s \in Conns |-> "none"]
    /\ deviceIMEI = [s \in Conns |-> NoIMEI]
    /\ clientConfig = [s \in Conns |-> Null]
    /\ dataBuffer = [s \in Conns |-> <<>>]
    /\ pending = [s \in Conns |-> <<>>]
    /\ written = [s \in Conns |-> <<>>]
    /\ routeCalls = [s \in Conns |-> <<>>]
    /\ received = [s \in Conns |-> 0]
    /\ lookupKind = [s \in Conns |-> "none"]
    /\ clientCache = [i \in Imeis |-> Null]
    /\ timers = <<>>
    /\ now = 0
    /\ insertedAt = [i \in Imeis |-> -1]
    /\ firstAt = [i \in Imeis |-> -1]

(***************************************************************************)
(* The socket, as the handler uses it.  c is the record of one             *)
(* connection's variables.                                                 *)
(***************************************************************************)
\* socket.write: after end() nothing is sent, the write fails with
\* ERR_STREAM_WRITE_AFTER_END and the stream is destroyed
socketWrite(c, bytes) ==
    IF c.socket = "open" THEN [c EXCEPT !.written = Append(@, bytes)]
    ELSE [c EXCEPT !.socket = "destroyed"]

\* socket.end: half-close, the readable side stays open
socketEnd(c) == IF c.socket = "open" THEN [c EXCEPT !.socket = "ended"] ELSE c

Reject == <<0>>

Accept == <<1>>

(***************************************************************************)
(* DataRouter.validateDevice, after the registry answered.                 *)
(***************************************************************************)
Row(imei, url, key) ==
    [imei |-> imei, unidad |-> "unidad", cliente |-> "cliente",
     supabase_url_destino |-> url, supabase_service_key_destino |-> key]

\* what the query of vista_maestra_dispositivos can resolve to: { data, error },
\* or a rejected promise
RegistryAnswers(imei) ==
    {[error |-> TRUE, data |-> Null],
     [error |-> FALSE, data |-> Null],
     [error |-> FALSE, data |-> Row(imei, "url", "key")],
     [error |-> FALSE, data |-> Row(imei, "", "key")],
     [error |-> FALSE, data |-> Row(imei, "url", "")],
     Throw}

BuildConfig(data) ==
    [imei |-> data.imei, unidad |-> data.unidad, cliente |-> data.cliente,
     supabaseUrl |-> data.supabase_url_destino,
     supabaseKey |-> data.supabase_service_key_destino]

\* variant: the destination key of the row is not looked at
ValidateResultNoKey(answer) ==
    IF answer = Throw THEN Null
    ELSE IF answer.error THEN Null
    ELSE IF answer.data = Null THEN Null
    ELSE IF answer.data.supabase_url_destino = "" THEN Null
    ELSE BuildConfig(answer.data)

\* the value validateDevice returns for an answer of the registry
ValidateResult(answer) ==
    IF answer = Throw THEN Null
    ELSE IF answer.error THEN Null
    ELSE IF answer.data = Null THEN Null
    ELSE IF answer.data.supabase_url_destino = ""
            \/ answer.data.supabase_service_key_destino = "" THEN Null
    ELSE BuildConfig(answer.data)

\* this.clientCache.has(imei)
CacheHas(imei) == clientCache[imei] # Null

\* variant: every entry stored under one key
CacheKeyFixed(imei) == IMEI1

\* the key under which validateDevice stores the config it built
CacheKey(imei) == imei

\* variants: the timer armed one tick early, one tick late
ExpiryDelayShort == CacheTicks - 1

ExpiryDelayLong == CacheTicks + 1

\* the delay of the expiry timer
ExpiryDelay == CacheTicks

(***************************************************************************)
(* The 'data' handler of a connection (index.js).                          *)
(***************************************************************************)
\* from the return of validateDevice to the end of the handler
AfterValidate(c, config) ==
    LET c1 == [c EXCEPT !.clientConfig = config]
    IN  IF config = Null THEN socketEnd(socketWrite(c1, Reject))
        ELSE [socketWrite(c1, Accept) EXCEPT !.dataBuffer = <<>>]

\* variant: the acknowledgement ignores the outcome of routeData
RecordsToAckZero(success, numberOfRecords) == 0

\* the records acknowledged after routeData returned
RecordsToAck(success, numberOfRecords) == IF success THEN numberOfRecords ELSE 0

\* variant: a failed routeData makes the handler forget the route
AfterRouteForget(c, success, numberOfRecords) ==
    [socketWrite(c, createACK(RecordsToAck(success, numberOfRecords)))
        EXCEPT !.dataBuffer = <<>>,
               !.clientConfig = IF success THEN @ ELSE Null]

\* from the return of routeData to the end of the handler
AfterRoute(c, success, numberOfRecords) ==
    [socketWrite(c, createACK(RecordsToAck(success, numberOfRecords)))
        EXCEPT !.dataBuffer = <<>>]

\* the handler needs an IMEI first
NeedsIMEI(c) == c.deviceIMEI = NoIMEI

\* history only: a query made when the last entry of the IMEI is long gone
MissKind(imei) ==
    IF insertedAt[imei] # -1 /\ now >= insertedAt[imei] + CacheTicks
    THEN "remiss" ELSE "miss"

\* STEP 1, up to the call of validateDevice; a cache hit returns at once and
\* the handler resumes before any other event
StepIMEI(c) ==
    IF Len(c.dataBuffer) < 17 THEN c
    ELSE LET imei == parseIMEI(c.dataBuffer)
             c1 == [c EXCEPT !.deviceIMEI = imei]
         IN  IF imei = NoIMEI THEN socketEnd(socketWrite(c1, Reject))
             ELSE IF CacheHas(imei)
             THEN AfterValidate([c1 EXCEPT !.lookupKind = "hit"], clientCache[imei])
             ELSE [c1 EXCEPT !.lookupKind = MissKind(imei),
                             !.pending =
                                 Append(@, [await |-> "registry", imei |-> imei])]

\* router.routeData(clientConfig, records) and what became of its insert
RouteCall(config, records, outcome) ==
    [clientConfig |-> config, records |-> records, outcome |-> outcome]

\* STEP 2, up to the call of routeData; with no config routeData throws
\* before it reaches the insert, catches and returns false at once
StepAVL(c) ==
    IF Len(c.dataBuffer) < 12 THEN c
    ELSE LET avlData == parseAVLData(c.dataBuffer)
         IN  IF avlData = Null
             THEN [socketWrite(c, createACK(0)) EXCEPT !.dataBuffer = <<>>]
             ELSE IF Len(avlData.records) = 0
             THEN [socketWrite(c, createACK(0)) EXCEPT !.dataBuffer = <<>>]
             ELSE IF c.clientConfig = Null
             THEN AfterRoute([c EXCEPT !.routeCalls =
                                  Append(@, RouteCall(c.clientConfig,
                                                      avlData.records, "none"))],
                             FALSE, avlData.numberOfRecords)
             ELSE [c EXCEPT !.routeCalls =
                       Append(@, RouteCall(c.clientConfig, avlData.records,
                                           "pending")),
                   !.pending =
                       Append(@, [await |-> "insert", avlData |-> avlData,
                                  call |-> Len(c.routeCalls) + 1])]

OnData(c, chunk) ==
    LET c1 == [c EXCEPT !.dataBuffer = @ \o chunk, !.received = @ + 1]
    IN  IF NeedsIMEI(c1) THEN StepIMEI(c1) ELSE StepAVL(c1)

(***************************************************************************)
(* Actions.                                                                *)
(***************************************************************************)
ConnOf(s) ==
    [socket |-> socket[s], deviceIMEI |-> deviceIMEI[s],
     clientConfig |-> clientConfig[s], dataBuffer |-> dataBuffer[s],
     pending |-> pending[s], written |-> written[s],
     routeCalls |-> routeCalls[s], received |-> received[s],
     lookupKind |-> lookupKind[s]]

\* variant: dataBuffer declared outside the connection callback, one for all
SetConnSharedBuffer(s, c) ==
    /\ socket' = [socket EXCEPT ![s] = c.socket]
    /\ deviceIMEI' = [deviceIMEI EXCEPT ![s] = c.deviceIMEI]
    /\ clientConfig' = [clientConfig EXCEPT ![s] = c.clientConfig]
    /\ dataBuffer' = [t \in Conns |-> c.dataBuffer]
    /\ pending' = [pending EXCEPT ![s] = c.pending]
    /\ written' = [written EXCEPT ![s] = c.written]
    /\ routeCalls' = [routeCalls EXCEPT ![s] = c.routeCalls]
    /\ received' = [received EXCEPT ![s] = c.received]
    /\ lookupKind' = [lookupKind EXCEPT ![s] = c.lookupKind]

SetConn(s, c) ==
    /\ socket' = [socket EXCEPT ![s] = c.socket]
    /\ deviceIMEI' = [deviceIMEI EXCEPT ![s] = c.deviceIMEI]
    /\ clientConfig' = [clientConfig EXCEPT ![s] = c.clientConfig]
    /\ dataBuffer' = [dataBuffer EXCEPT ![s] = c.dataBuffer]
    /\ pending' = [pending EXCEPT ![s] = c.pending]
    /\ written' = [written EXCEPT ![s] = c.written]
    /\ routeCalls' = [routeCalls EXCEPT ![s] = c.routeCalls]
    /\ received' = [received EXCEPT ![s] = c.received]
    /\ lookupKind' = [lookupKind EXCEPT ![s] = c.lookupKind]

NewConn ==
    [socket |-> "open", deviceIMEI |-> NoIMEI, clientConfig |-> Null,
     dataBuffer |-> <<>>, pending |-> <<>>, written |-> <<>>,
     routeCalls |-> <<>>, received |-> 0, lookupKind |-> "none"]

\* a timer whose time has come runs before any I/O callback
TimerDue == timers # <<>> /\ Head(timers).due <= now

RemoveAt(seq, k) == SubSeq(seq, 1, k - 1) \o SubSeq(seq, k + 1, Len(seq))

\* net.createServer callback: a device connects (slot s is free)
Connect(s) ==
    /\ ~TimerDue
    /\ socket[s] \in {"none", "destroyed"}
    /\ pending[s] = <<>>
    /\ SetConn(s, NewConn)
    /\ UNCHANGED <<routerVars, now>>

\* the device closes the connection, or the connection fails
Close(s) ==
    /\ ~TimerDue
    /\ socket[s] \in {"open", "ended"}
    /\ socket' = [socket EXCEPT ![s] = "destroyed"]
    /\ UNCHANGED <<deviceIMEI, clientConfig, dataBuffer, pending, written,
                   routeCalls, received, lookupKind, routerVars, now>>

\* socket.on('data'): a chunk arrives and the handler runs to its first await
Data(s, chunk, n) ==
    /\ ~TimerDue
    /\ socket[s] \in {"open", "ended"}
    /\ received[s] < n
    /\ SetConn(s, OnData(ConnOf(s), chunk))
    /\ UNCHANGED <<routerVars, now>>

\* the registry answers the query of the k-th suspended handler of s:
\* validateDevice finishes and the handler runs to its end
RegistryReply(s, k, answer) ==
    /\ ~TimerDue
    /\ k \in 1..Len(pending[s])
    /\ pending[s][k].await = "registry"
    /\ answer \in RegistryAnswers(pending[s][k].imei)
    /\ LET imei == pending[s][k].imei
           config == ValidateResult(answer)
           c == [ConnOf(s) EXCEPT !.pending = RemoveAt(@, k)]
       IN  /\ SetConn(s, AfterValidate(c, config))
           /\ IF config = Null
              THEN UNCHANGED routerVars
              ELSE /\ clientCache' = [clientCache EXCEPT ![CacheKey(imei)] = config]
                   /\ timers' = Append(timers, [imei |-> imei,
                                                due |-> now + ExpiryDelay])
                   /\ insertedAt' = [insertedAt EXCEPT ![CacheKey(imei)] = now]
                   /\ firstAt' = [firstAt EXCEPT ![imei] =
                                      IF @ = -1 THEN now ELSE @]
    /\ UNCHANGED now

\* what the insert into telemetria can do: resolve without error, resolve
\* with an error, or reject
InsertOutcomes == {"ok", "error", "throw"}

\* variant: an error result of the insert taken as success
RouteResultLenient(outcome) == outcome # "throw"

\* the value routeData returns for an outcome of the insert
RouteResult(outcome) == outcome = "ok"

\* the sink answers the insert of the k-th suspended handler of s:
\* routeData finishes and the handler runs to its end
InsertReply(s, k, outcome) ==
    /\ ~TimerDue
    /\ k \in 1..Len(pending[s])
    /\ pending[s][k].await = "insert"
    /\ outcome \in InsertOutcomes
    /\ LET c == [ConnOf(s) EXCEPT
                     !.pending = RemoveAt(@, k),
                     !.routeCalls[pending[s][k].call].outcome = outcome]
       IN  SetConn(s, AfterRoute(c, RouteResult(outcome),
                                 pending[s][k].avlData.numberOfRecords))
    /\ UNCHANGED <<routerVars, now>>

\* setTimeout(() => this.clientCache.delete(imei), 5 * 60 * 1000)
Expire ==
    /\ TimerDue
    /\ clientCache' = [clientCache EXCEPT ![Head(timers).imei] = Null]
    /\ timers' = Tail(timers)
    /\ UNCHANGED <<connVars, now, insertedAt, firstAt>>

\* time passes
Tick ==
    /\ ~TimerDue
    /\ now < MaxTime
    /\ now' = now + 1
    /\ UNCHANGED <<connVars, routerVars>>

\* the callbacks of the connections in C, whose devices send the chunks in K,
\* at most n per connection
ConnStep(C, K, n) ==
    \/ \E s \in C : Connect(s)
    \/ \E s \in C : Close(s)
    \/ \E s \in C, chunk \in K : Data(s, chunk, n)
    \/ \E s \in C, k \in 1..n, answer \in UNION {RegistryAnswers(i) : i \in Imeis} :
           RegistryReply(s, k, answer)

SinkStep(C, n) ==
    \E s \in C, k \in 1..n, outcome \in InsertOutcomes : InsertReply(s, k, outcome)

ClockStep == Expire \/ Tick

\* one connection, every kind of message
Next == ConnStep({1}, Chunks, MaxChunks) \/ SinkStep({1}, MaxChunks) \/ ClockStep

Spec == Init /\ [][Next]_vars

\* several connections at once that send identities only: no packet decodes,
\* so no insert is ever awaited
NextResolver == ConnStep(Conns, IdentityChunks, MaxLookupChunks) \/ ClockStep

SpecResolver == Init /\ [][NextResolver]_vars

\* one connection whose device sends every kind of identity and packet, whole
\* and in pieces, while the clock stands still
NextDecoder ==
    ConnStep({1}, DecoderChunks, MaxDecoderChunks) \/ SinkStep({1}, MaxDecoderChunks)

SpecDecoder == Init /\ [][NextDecoder]_vars

\* one connection whose device sends its identity and packets of unsupported
\* codecs only: nothing decodes, so no insert is ever awaited
NextCodec == ConnStep({1}, CodecChunks, MaxDecoderChunks)

SpecCodec == Init /\ [][NextCodec]_vars

\* the connections whose registry and sink calls never complete, and the others
HungConns == {1}

LiveConns == Conns \ HungConns

\* several connections, the clock standing still; the calls of the hung
\* connections are never answered
NextSessions ==
    \/ \E s \in Conns : Connect(s)
    \/ \E s \in Conns : Close(s)
    \/ \E s \in Conns, chunk \in SessionChunks : Data(s, chunk, MaxSessionChunks)
    \/ \E s \in LiveConns, k \in 1..MaxSessionChunks,
          answer \in UNION {RegistryAnswers(i) : i \in Imeis} :
           RegistryReply(s, k, answer)
    \/ \E s \in LiveConns, k \in 1..MaxSessionChunks, outcome \in InsertOutcomes :
           InsertReply(s, k, outcome)

\* a call of a live connection is answered in the end: the promise of a query
\* or insert that completes is settled and its continuation is run
LiveCallsComplete ==
    \A s \in LiveConns :
        /\ WF_vars(\E k \in 1..MaxSessionChunks,
                      answer \in UNION {RegistryAnswers(i) : i \in Imeis} :
                       RegistryReply(s, k, answer))
        /\ WF_vars(\E k \in 1..MaxSessionChunks, outcome \in InsertOutcomes :
                       InsertReply(s, k, outcome))

SpecSessions == Init /\ [][NextSessions]_vars /\ LiveCallsComplete

(***************************************************************************)
(* Properties.                                                             *)
(***************************************************************************)
\* the handler of s ran for one more chunk in this step
DataStep(s) == received'[s] = received[s] + 1

\* s is in the Authenticated phase: it holds an identity and a route
Authenticated(s) == deviceIMEI[s] # NoIMEI /\ clientConfig[s] # Null

IsAck(bytes) == Len(bytes) = 4

\* the values the messages above carry, as a decoder must report them
DecodedA ==
    [recorded_at |-> <<1, 141, 154, 47, 47, 0>>, priority |-> 0,
     longitude |-> -991332090, latitude |-> 194326080, altitude |-> 2240,
     angle |-> 180, satellites |-> 12, speed |-> 60,
     io_elements |-> (1 :> <<1>>), event_id |-> 0]

DecodedB ==
    [recorded_at |-> <<1, 141, 154, 47, 164, 48>>, priority |-> 1,
     longitude |-> -991332000, latitude |-> 194326000, altitude |-> 2241,
     angle |-> 181, satellites |-> 11, speed |-> 61,
     io_elements |-> (9 :> <<>>) @@ (66 :> <<53, 232>>), event_id |-> 9]

\* the well-formed packets among the messages, with their records in wire order
WellFormed ==
    {[bytes |-> PacketOne, codecID |-> Codec8, records |-> <<DecodedA>>],
     [bytes |-> PacketTwo, codecID |-> Codec8, records |-> <<DecodedA, DecodedB>>],
     [bytes |-> PacketExt, codecID |-> Codec8Ext, records |-> <<DecodedA>>]}

\* what parseAVLData must return for the well-formed packet w
AvlDataOf(w) ==
    [codecID |-> w.codecID, numberOfRecords |-> Len(w.records),
     records |-> w.records]

\* C1: within one connection the handler never starts on a chunk while an
\* earlier invocation is still suspended at an awaited registry lookup or
\* sink write.
C1_ChunksStrictlyOrdered ==
    [][\A s \in Conns : DataStep(s) => pending[s] = <<>>]_vars

\* C2: when the resolver returns a route for the identity of an open
\* connection, the accept byte 0x01 is the first and only thing written so
\* far, and the session holds the identity and that route with an empty inbox.
C2_AcceptIsFirstWrite ==
    [][\A s \in Conns :
          (clientConfig[s] = Null /\ clientConfig'[s] # Null /\ socket[s] = "open")
          => /\ written'[s] = <<Accept>>
             /\ deviceIMEI'[s] # NoIMEI
             /\ clientConfig'[s].imei = deviceIMEI'[s]
             /\ dataBuffer'[s] = <<>>]_vars

\* s was rejected for an invalid identity: the reject byte went out, the
\* socket was ended, no IMEI was kept
RejectedInvalid(s) ==
    socket[s] = "ended" /\ deviceIMEI[s] = NoIMEI /\ written[s] = <<Reject>>

\* C3: after the reject of an invalid identity the connection takes no
\* further message: whatever arrives, nothing is decoded, looked up, routed
\* or written, so the variables of the connection stay as they are (until
\* the socket is gone).
C3_NothingAfterInvalidReject ==
    [][\A s \in Conns :
          (RejectedInvalid(s) /\ socket'[s] # "open")
          => /\ dataBuffer'[s] = dataBuffer[s]
             /\ written'[s] = written[s]
             /\ pending'[s] = <<>>
             /\ routeCalls'[s] = <<>>]_vars

\* validateDevice returned null for the identity of s
LookupNotFound(s) ==
    /\ deviceIMEI[s] # NoIMEI
    /\ clientConfig[s] = Null
    /\ \A k \in 1..Len(pending[s]) : pending[s][k].await # "registry"

\* C4: a connection whose identity resolved to NotFound gets the reject byte
\* and nothing else: no 4-byte ACK is ever written to it and routeData is
\* never called for it.
C4_NotFoundOnlyRejected ==
    \A s \in Conns :
        LookupNotFound(s)
        => /\ \A k \in 1..Len(written[s]) : written[s][k] = Reject
           /\ socket[s] = "ended" => written[s] = <<Reject>>
           /\ routeCalls[s] = <<>>

\* a decoded packet that declares more records than were decoded
Truncated(avlData) == Len(avlData.records) < avlData.numberOfRecords

\* C5: the answer to a truncated packet is the ACK 00 00 00 00, also when
\* its leading records were decoded and the sink succeeds.
C5_TruncatedAckZero ==
    [][\A s \in Conns : \A k \in 1..Len(pending[s]) :
          (/\ pending[s][k].await = "insert"
           /\ Truncated(pending[s][k].avlData)
           /\ pending'[s] = RemoveAt(pending[s], k)
           /\ socket[s] = "open")
          => written'[s] = Append(written[s], <<0, 0, 0, 0>>)]_vars

\* C6: in the Authenticated phase a well-formed packet w in the inbox is
\* handed to the sink as exactly the records of w, in wire order, with the
\* route of the session; when the sink succeeds, one ACK with the number of
\* records of w is written and the inbox is cleared.
C6_WellFormedRoutedAndAcked ==
    [][\A s \in Conns : \A w \in WellFormed :
          /\ (Authenticated(s) /\ DataStep(s) /\ dataBuffer'[s] = w.bytes)
             => /\ routeCalls'[s] =
                       Append(routeCalls[s],
                              RouteCall(clientConfig[s], w.records, "pending"))
                /\ pending'[s] =
                       Append(pending[s],
                              [await |-> "insert", avlData |-> AvlDataOf(w),
                               call |-> Len(routeCalls[s]) + 1])
                /\ written'[s] = written[s]
          /\ \A k \in 1..Len(pending[s]) :
                (/\ pending[s][k].await = "insert"
                 /\ pending[s][k].avlData = AvlDataOf(w)
                 /\ pending'[s] = RemoveAt(pending[s], k)
                 /\ routeCalls'[s][pending[s][k].call].outcome = "ok"
                 /\ socket[s] = "open")
                => /\ written'[s] =
                          Append(written[s], <<0, 0, 0, Len(w.records)>>)
                   /\ dataBuffer'[s] = <<>>]_vars

\* a well-formed packet of two records was routed, stored and acknowledged
C6_Witness ==
    \E s \in Conns :
        /\ routeCalls[s] =
               <<RouteCall(clientConfig[s], <<DecodedA, DecodedB>>, "ok")>>
        /\ Authenticated(s)
        /\ written[s] = <<Accept, <<0, 0, 0, 2>>>>
        /\ dataBuffer[s] = <<>>

\* C7: when the sink fails (error result or thrown fault) for a decoded
\* packet, one ACK 0 is written, the inbox is cleared, identity, route and
\* socket stay as they are, and routeData is not called again.
C7_SinkFailureAckZero ==
    [][\A s \in Conns : \A k \in 1..Len(pending[s]) :
          (/\ pending[s][k].await = "insert"
           /\ pending'[s] = RemoveAt(pending[s], k)
           /\ routeCalls'[s][pending[s][k].call].outcome \in {"error", "throw"}
           /\ socket[s] = "open")
          => /\ written'[s] = Append(written[s], <<0, 0, 0, 0>>)
             /\ dataBuffer'[s] = <<>>
             /\ deviceIMEI'[s] = deviceIMEI[s]
             /\ clientConfig'[s] = clientConfig[s]
             /\ socket'[s] = "open"
             /\ Len(routeCalls'[s]) = Len(routeCalls[s])]_vars

\* the sink failed for a packet of an authenticated, still open connection
C7_Witness ==
    \E s \in Conns :
        /\ Authenticated(s)
        /\ socket[s] = "open"
        /\ Len(routeCalls[s]) = 1
        /\ routeCalls[s][1].outcome \in {"error", "throw"}
        /\ written[s] = <<Accept, <<0, 0, 0, 0>>>>
        /\ dataBuffer[s] = <<>>

\* validateDevice is called for s in this step, with the IMEI deviceIMEI'[s]
LookupStep(s) == deviceIMEI[s] = NoIMEI /\ deviceIMEI'[s] # NoIMEI

\* C8: a lookup of an IMEI made after its first resolution and less than
\* 5 minutes from it returns the cached route and makes no registry call.
C8_HitWithinFirstWindow ==
    [][\A s \in Conns :
          (/\ LookupStep(s)
           /\ firstAt[deviceIMEI'[s]] # -1
           /\ now < firstAt[deviceIMEI'[s]] + CacheTicks)
          => /\ pending'[s] = pending[s]
             /\ clientConfig'[s] # Null
             /\ clientConfig'[s] = clientCache[deviceIMEI'[s]]]_vars

\* a second connection was accepted from the cache inside the first window
C8_Witness ==
    \E s \in Conns :
        /\ lookupKind[s] = "hit"
        /\ written[s] = <<Accept>>
        /\ firstAt[deviceIMEI[s]] # -1
        /\ now < firstAt[deviceIMEI[s]] + CacheTicks
        /\ \E t \in Conns \ {s} :
               deviceIMEI[t] = deviceIMEI[s] /\ lookupKind[t] = "miss" /\ Authenticated(t)

\* C9: a lookup answered without a registry call returns an entry that was
\* set less than 5 minutes before; a lookup made 5 minutes or more after the
\* last entry of its IMEI was set queries the registry.
C9_BoundedStaleness ==
    [][\A s \in Conns :
          LookupStep(s)
          => /\ pending'[s] = pending[s]
                => /\ insertedAt[deviceIMEI'[s]] # -1
                   /\ now - insertedAt[deviceIMEI'[s]] < CacheTicks
                   /\ clientConfig'[s] = clientCache[deviceIMEI'[s]]
             /\ (/\ insertedAt[deviceIMEI'[s]] # -1
                 /\ now >= insertedAt[deviceIMEI'[s]] + CacheTicks)
                => pending'[s] =
                       Append(pending[s],
                              [await |-> "registry", imei |-> deviceIMEI'[s]])]_vars

\* an entry expired and the next lookup of its IMEI went to the registry
C9_Witness ==
    \E s \in Conns :
        /\ lookupKind[s] = "remiss"
        /\ pending[s] = <<[await |-> "registry", imei |-> deviceIMEI[s]]>>
        /\ ~CacheHas(deviceIMEI[s])

\* C10: every cache entry is the route of the IMEI it is stored under, and
\* the route a session got is the route of its own IMEI.
C10_OwnRoute ==
    /\ \A i \in Imeis : CacheHas(i) => clientCache[i].imei = i
    /\ \A s \in Conns : clientConfig[s] # Null => clientConfig[s].imei = deviceIMEI[s]

\* two sessions resolved two IMEIs at the same time, both through the registry
C10_Witness ==
    \E s, t \in Conns :
        /\ deviceIMEI[s] = IMEI1 /\ deviceIMEI[t] = IMEI2
        /\ lookupKind[s] = "miss" /\ lookupKind[t] = "miss"
        /\ Authenticated(s) /\ Authenticated(t)
        /\ CacheHas(IMEI1) /\ CacheHas(IMEI2)
        /\ insertedAt[IMEI1] = insertedAt[IMEI2]

\* the registry answered with a row that has both destination fields
FullRow(answer) ==
    /\ answer # Throw
    /\ ~answer.error
    /\ answer.data # Null
    /\ answer.data.supabase_url_destino # ""
    /\ answer.data.supabase_service_key_destino # ""

\* C11: when the registry answers a lookup, the lookup returns a route only
\* for a row with both endpoint and credential, and then caches it with an
\* expiry; for an absent row, an error, a fault or a row missing either field
\* it returns null, leaves cache and timers as they are, and the session is
\* rejected; a lookup of an IMEI that was never resolved queries the registry.
C11_RouteOnlyForFullRow ==
    [][\A s \in Conns :
          /\ \A k \in 1..MaxLookupChunks :
             \A answer \in UNION {RegistryAnswers(i) : i \in Imeis} :
                RegistryReply(s, k, answer)
                => IF FullRow(answer)
                   THEN /\ clientConfig'[s].imei = pending[s][k].imei
                        /\ clientConfig'[s].supabaseUrl = answer.data.supabase_url_destino
                        /\ clientConfig'[s].supabaseKey =
                               answer.data.supabase_service_key_destino
                        /\ clientCache'[pending[s][k].imei] = clientConfig'[s]
                        /\ timers' = Append(timers, [imei |-> pending[s][k].imei,
                                                     due |-> now + CacheTicks])
                   ELSE /\ clientConfig'[s] = Null
                        /\ clientCache' = clientCache
                        /\ timers' = timers
                        /\ socket[s] = "open"
                           => written'[s] = Append(written[s], Reject)
          /\ (LookupStep(s) /\ firstAt[deviceIMEI'[s]] = -1)
             => pending'[s] = Append(pending[s],
                                     [await |-> "registry", imei |-> deviceIMEI'[s]])]_vars

\* a lookup ended NotFound, nothing was cached or scheduled, and another
\* lookup of the same IMEI is at the registry
C11_Witness ==
    \E s, t \in Conns :
        /\ s # t
        /\ LookupNotFound(s)
        /\ written[s] = <<Reject>>
        /\ deviceIMEI[t] = deviceIMEI[s]
        /\ pending[t] = <<[await |-> "registry", imei |-> deviceIMEI[t]]>>
        /\ \A i \in Imeis : ~CacheHas(i) /\ firstAt[i] = -1
        /\ timers = <<>>

\* the identity a 17-byte message carries: its 15 characters when the length
\* prefix is 15 and every character is one of the bytes 0x30..0x39
IdentityOf(b) ==
    IF b[1] = 0 /\ b[2] = 15 /\ \A i \in 3..17 : b[i] >= 48 /\ b[i] <= 57
    THEN SubSeq(b, 3, 17) ELSE NoIMEI

\* C12: the identity decoded from an inbox of 17 bytes or more is the 15
\* payload bytes when the prefix is 15 and all of them are ASCII digits, and
\* no identity at all otherwise (also for bytes with the high bit set).
C12_IdentityExactlyDigits ==
    [][\A s \in Conns : \A chunk \in DecoderChunks :
          (/\ Data(s, chunk, MaxDecoderChunks)
           /\ deviceIMEI[s] = NoIMEI
           /\ Len(dataBuffer[s] \o chunk) >= 17)
          => deviceIMEI'[s] = IdentityOf(dataBuffer[s] \o chunk)]_vars

\* C13: a decoded packet is never partial: it holds as many records as its
\* count byte declares.
C13_NoPartialPacket ==
    \A s \in Conns : \A k \in 1..Len(pending[s]) :
        pending[s][k].await = "insert"
        => Len(pending[s][k].avlData.records) = pending[s][k].avlData.numberOfRecords

\* C14: an Authenticated session whose inbox (12 bytes or more) carries a
\* codec id other than 0x08 and 0x8E hands nothing to the sink, writes one
\* ACK 0, clears the inbox and stays Authenticated with its identity and route.
C14_UnsupportedCodecAckZero ==
    [][\A s \in Conns : \A chunk \in CodecChunks :
          (/\ Data(s, chunk, MaxDecoderChunks)
           /\ Authenticated(s)
           /\ socket[s] = "open"
           /\ Len(dataBuffer[s] \o chunk) >= 12
           /\ (dataBuffer[s] \o chunk)[9] \notin {8, 142})
          => /\ written'[s] = Append(written[s], <<0, 0, 0, 0>>)
             /\ routeCalls'[s] = routeCalls[s]
             /\ pending'[s] = pending[s]
             /\ dataBuffer'[s] = <<>>
             /\ deviceIMEI'[s] = deviceIMEI[s]
             /\ clientConfig'[s] = clientConfig[s]
             /\ socket'[s] = "open"]_vars

\* an accepted session got two packets of unsupported codecs
C14_Witness ==
    \E s \in Conns :
        /\ Authenticated(s)
        /\ socket[s] = "open"
        /\ received[s] = 3
        /\ written[s] = <<Accept, <<0, 0, 0, 0>>, <<0, 0, 0, 0>>>>
        /\ routeCalls[s] = <<>>
        /\ dataBuffer[s] = <<>>

DecodedC ==
    [recorded_at |-> <<1, 141, 154, 47, 47, 0>>, priority |-> 0,
     longitude |-> -991332090, latitude |-> 194326080, altitude |-> 2240,
     angle |-> 180, satellites |-> 12, speed |-> 60,
     io_elements |-> (16 :> <<1, 226, 64>>) @@ (78 :> <<18, 52, 86, 120>>),
     event_id |-> 16]

\* packets that carry the same values in Codec 8 and in Codec 8 Extended
SameValues ==
    {[plain |-> PacketOne, ext |-> PacketExt, records |-> <<DecodedA>>],
     [plain |-> PacketTwo, ext |-> PacketTwoExt, records |-> <<DecodedA, DecodedB>>],
     [plain |-> PacketWide, ext |-> PacketWideExt, records |-> <<DecodedC>>]}

\* the result of parseAVLData the handler is suspended with last
LastDecoded(s) == pending'[s][Len(pending'[s])].avlData

\* C15: the handler decodes a Codec 8 Extended packet to the same records
\* (timestamp, priority, GPS fields, event id, IO elements) and record count
\* as it decodes the Codec 8 packet of the same values; only codecID differs.
C15_ExtendedSameValues ==
    [][\A s \in Conns : \A p \in SameValues :
          /\ (/\ Authenticated(s)
              /\ dataBuffer[s] = <<>>
              /\ Data(s, p.plain, MaxDecoderChunks))
             => /\ Len(pending'[s]) = Len(pending[s]) + 1
                /\ LastDecoded(s) = [codecID |-> Codec8,
                                     numberOfRecords |-> Len(p.records),
                                     records |-> p.records]
          /\ (/\ Authenticated(s)
              /\ dataBuffer[s] = <<>>
              /\ Data(s, p.ext, MaxDecoderChunks))
             => /\ Len(pending'[s]) = Len(pending[s]) + 1
                /\ LastDecoded(s) = [codecID |-> Codec8Ext,
                                     numberOfRecords |-> Len(p.records),
                                     records |-> p.records]]_vars

\* the handler decoded the two-record Codec 8 Extended packet
C15_Witness ==
    \E s \in Conns :
        /\ Authenticated(s)
        /\ dataBuffer[s] = PacketTwoExt
        /\ pending[s] = <<[await |-> "insert",
                           avlData |-> [codecID |-> Codec8Ext, numberOfRecords |-> 2,
                                        records |-> <<DecodedA, DecodedB>>],
                           call |-> 1]>>

\* the handler of s only kept the chunk: no write, no lookup, no sink call,
\* identity, route and socket as before
OnlyBuffered(s, chunk) ==
    /\ dataBuffer'[s] = dataBuffer[s] \o chunk
    /\ written'[s] = written[s]
    /\ pending'[s] = pending[s]
    /\ routeCalls'[s] = routeCalls[s]
    /\ deviceIMEI'[s] = deviceIMEI[s]
    /\ clientConfig'[s] = clientConfig[s]
    /\ socket'[s] = socket[s]

\* C16: a chunk that leaves the inbox below 17 bytes before the session is
\* Authenticated, or below 12 bytes once it is, is only added to the inbox;
\* an identity that arrives in pieces is decoded when the inbox holds all of it.
C16_WaitingOnlyBuffers ==
    [][\A s \in Conns : \A chunk \in DecoderChunks :
          Data(s, chunk, MaxDecoderChunks)
          => /\ (~Authenticated(s) /\ Len(dataBuffer[s] \o chunk) < 17)
                => OnlyBuffered(s, chunk)
             /\ (Authenticated(s) /\ Len(dataBuffer[s] \o chunk) < 12)
                => OnlyBuffered(s, chunk)
             /\ (/\ deviceIMEI[s] = NoIMEI
                 /\ dataBuffer[s] # <<>>
                 /\ dataBuffer[s] \o chunk = IdentityMsg(IMEI1))
                => deviceIMEI'[s] = IMEI1]_vars

\* a device connects on the slot s in this step: a new session begins
NewSession(s) == socket[s] \in {"none", "destroyed"} /\ socket'[s] = "open"

\* C17: once a session is Authenticated its identity and its route stay as
\* they are, whatever happens, until a new session takes the slot.
C17_AuthenticatedIsFixed ==
    [][\A s \in Conns :
          (Authenticated(s) /\ ~NewSession(s))
          => /\ deviceIMEI'[s] = deviceIMEI[s]
             /\ clientConfig'[s] = clientConfig[s]]_vars

\* an Authenticated session after a sink failure, a decode failure and the
\* expiry of the cache entry of its IMEI
C17_Witness ==
    \E s \in Conns :
        /\ Authenticated(s)
        /\ socket[s] = "open"
        /\ received[s] = 3
        /\ written[s] = <<Accept, <<0, 0, 0, 0>>, <<0, 0, 0, 0>>>>
        /\ Len(routeCalls[s]) = 1
        /\ routeCalls[s][1].outcome \in {"error", "throw"}
        /\ ~CacheHas(deviceIMEI[s])
        /\ timers = <<>>

\* C18: an entry leaves the cache exactly 5 minutes after it was set: it is
\* not removed before (not by the timer of an earlier entry of the same IMEI
\* either) and it is not kept longer.
C18_RemovedAfterOwnFiveMinutes ==
    [][\A i \in Imeis :
          /\ (clientCache[i] # Null /\ clientCache'[i] = Null)
             => now = insertedAt[i] + CacheTicks
          /\ clientCache'[i] # Null => now' <= insertedAt'[i] + CacheTicks]_vars

\* the variables of the connection callback of s
SessionState(s) ==
    <<socket[s], deviceIMEI[s], clientConfig[s], dataBuffer[s], pending[s],
      written[s], routeCalls[s]>>

\* C19: a step changes the variables of one session at most, and while the
\* calls of other sessions hang for ever, a live session that is suspended
\* at a call on an open socket gets its next answer written (the accept or
\* reject byte, or an ACK).
C19_SessionsIndependent ==
    /\ [][\A s, t \in Conns :
             s # t => \/ SessionState(s)' = SessionState(s)
                      \/ SessionState(t)' = SessionState(t)]_vars
    /\ \A s \in LiveConns : \A n \in 0..MaxSessionChunks :
           (socket[s] = "open" /\ pending[s] # <<>> /\ Len(written[s]) = n)
           ~> (Len(written[s]) > n \/ socket[s] # "open")

\* a hung session is suspended at its insert for ever, and a live session
\* was accepted and got the ACK of its packet
C19_Witness ==
    \E s \in HungConns : \E t \in LiveConns :
        /\ Len(pending[s]) = 1 /\ pending[s][1].await = "insert"
        /\ Authenticated(t)
        /\ written[t] = <<Accept, <<0, 0, 0, 1>>>>
        /\ routeCalls[t] = <<RouteCall(clientConfig[t], <<DecodedA>>, "ok")>>
        /\ pending[t] = <<>>

\* well-formed packets in two chunks, the first of 12 bytes or more
Splits ==
    {[first |-> PacketStub, rest |-> PacketOneRest, records |-> <<DecodedA>>],
     [first |-> PacketCut, rest |-> PacketTwoRest,
      records |-> <<DecodedA, DecodedB>>]}

AcceptedBefore(s, k) == \E j \in 1..(k - 1) : written[s][j] = Accept

\* C21: a session treats inbound bytes as a data packet only with a route
\* and after the accept byte: every call of routeData carries a route, and
\* every 4-byte ACK written follows the accept byte 0x01 (none is written
\* while the lookup is pending or after it returned NotFound).
C21_PacketsOnlyWhenAccepted ==
    \A s \in Conns :
        /\ \A k \in 1..Len(routeCalls[s]) : routeCalls[s][k].clientConfig # Null
        /\ \A k \in 1..Len(written[s]) :
               IsAck(written[s][k]) => AcceptedBefore(s, k)

\* a handler of s is suspended at the sink write of an earlier packet
SinkWritePending(s) ==
    \E k \in 1..Len(pending[s]) : pending[s][k].await = "insert"

\* C22: the records of a packet sent once go to the sink at most once: when
\* a well-formed packet w arrives in the Authenticated phase, with the inbox
\* empty or with the sink write of the previous packet still pending, the
\* one call of routeData made for it carries the records of w (the previous
\* packet is not decoded again and the bytes of w get a decode of their own).
C22_RecordsRoutedOnce ==
    [][\A s \in Conns : \A w \in WellFormed :
          (/\ Authenticated(s)
           /\ dataBuffer[s] = <<>> \/ SinkWritePending(s)
           /\ Data(s, w.bytes, MaxChunks))
          => routeCalls'[s] =
                 Append(routeCalls[s],
                        RouteCall(clientConfig[s], w.records, "pending"))]_vars

====
